---- MODULE Spec2Model ----
(***************************************************************************)
(* Appinn Forum Upload Enhancer: placeholder lifecycle and text splicing.  *)
(*                                                                         *)
(* The editor text is a sequence of lexical tokens; offsets (cursor,       *)
(* spans, lengths) count tokens.  Every fragment a template of the script  *)
(* emits is one token, every character the user types is one token.  The   *)
(* script's Chinese literals are written in ASCII:                         *)
(*   "[UPLOADING"       the placeholder opening  "[" U+4E0A U+4F20 U+4E2D  *)
(*   "[UPLOAD_FAILED("  the failure marker opening                         *)
(*   "NETWORK_ERROR" "SERVER_ERROR" "PERMISSION_ERROR" "FORMAT_ERROR"      *)
(*   "TYPE_UNSUPPORTED" "FILE_TOO_LARGE" "UNKNOWN_ERROR"  the messages     *)
(***************************************************************************)
EXTENDS Integers, Sequences, FiniteSets, TLC

VARIABLES
    value,            \* editor.value
    selectionStart,   \* editor.selectionStart
    selectionEnd,     \* editor.selectionEnd
    scrollTop,        \* editor.scrollTop
    uploads,          \* AppState.uploads: uploadId -> record
    uploadCounter,    \* AppState.uploadCounter
    now,              \* last value read from Date.now()
    tasks,            \* the _executeUpload calls, in call order
    trace,            \* uploadId -> the steps taken for that upload, in order
    cursorCase,       \* the case _adjustCursorPosition took when it last ran
    userActions,      \* number of user edits and selection changes so far
    replyNodes,       \* the #reply-control elements: in the document or not, class, content
    observers,        \* the connected mutation observers with their queued records
    currentObserver,  \* currentObserver of Initializer.init: an observer's id, 0 for null
    timers,           \* number of pending setTimeout(attemptFullSetup, ...)
    elements,         \* AppState.elements
    domActions        \* number of changes the page has made to the document so far

uploadVars == <<value, selectionStart, selectionEnd, scrollTop, uploads, uploadCounter,
                now, tasks, trace, cursorCase, userActions>>

setupVars == <<replyNodes, observers, currentObserver, timers, elements, domActions>>

vars == <<value, selectionStart, selectionEnd, scrollTop, uploads, uploadCounter,
          now, tasks, trace, cursorCase, userActions,
          replyNodes, observers, currentObserver, timers, elements, domActions>>

----------------------------------------------------------------------------
\* Bounds of the model.

MaxUploads == 2
MaxUserActions == 1
MaxBatch == 2
MaxSpan == 1
MaxNodes == 2
MaxDomActions == 4

----------------------------------------------------------------------------
\* CONFIG

MAX_FILE_SIZE == 20 * 1024 * 1024

ASSETS_URL_PREFIX == <<"https://h1.appinn.me">>

SUPPORTED_MIME_TYPES == <<"image", "video", "audio", "pdf">>

CONTENT_FORMAT_BEFORE == <<"\n">>

CONTENT_FORMAT_AFTER == <<"\n", "\n">>

ERROR_TYPES == {"network", "server", "permission", "format", "filetype", "filesize", "unknown"}

\* test(type) of a SUPPORTED_MIME_TYPES entry; a MIME type is <<type, subtype>>.
MimeTest(category, mimeType) ==
    CASE category = "image" -> mimeType[1] = "image"
      [] category = "video" -> mimeType[1] = "video"
      [] category = "audio" -> mimeType[1] = "audio"
      [] category = "pdf"   -> mimeType = <<"application", "pdf">>
      [] OTHER -> FALSE

\* format(filename, url) of a SUPPORTED_MIME_TYPES entry.
MimeFormat(category, filename, url) ==
    CASE category = "image" -> <<"!", "[", filename, "](">> \o url \o <<")">>
      [] category = "video" -> <<"!", "[", filename, "|video", "](">> \o url \o <<")">>
      [] category = "audio" -> <<"!", "[", filename, "|audio", "](">> \o url \o <<")">>
      [] OTHER              -> <<"[", filename, "|attachment", "](">> \o url \o <<")">>

----------------------------------------------------------------------------
\* Strings

Substring(text, from, to) == SubSeq(text, from + 1, to)

SubstringFrom(text, from) == SubSeq(text, from + 1, Len(text))

EndsWith(text, tok) == Len(text) > 0 /\ text[Len(text)] = tok

\* String.prototype.includes on token sequences.
Includes(text, phrase) ==
    \E i \in 1..(Len(text) - Len(phrase) + 1) : SubSeq(text, i, i + Len(phrase) - 1) = phrase

Min(a, b) == IF a < b THEN a ELSE b

Max(a, b) == IF a > b THEN a ELSE b

----------------------------------------------------------------------------
\* The state a handler works on, as one record.  alerts (the error kinds the
\* handler has shown with alert(), in order) and written (the selection offsets
\* it last assigned) are outputs of the handler.

NotWritten == 0 - 1

State ==
    [value |-> value, selectionStart |-> selectionStart, selectionEnd |-> selectionEnd,
     scrollTop |-> scrollTop, uploads |-> uploads, uploadCounter |-> uploadCounter,
     tasks |-> tasks, trace |-> trace, cursorCase |-> cursorCase,
     alerts |-> <<>>,
     written |-> [selectionStart |-> NotWritten, selectionEnd |-> NotWritten]]

Commit(s) ==
    /\ value' = s.value
    /\ selectionStart' = s.selectionStart
    /\ selectionEnd' = s.selectionEnd
    /\ scrollTop' = s.scrollTop
    /\ uploads' = s.uploads
    /\ uploadCounter' = s.uploadCounter
    /\ tasks' = s.tasks
    /\ trace' = s.trace
    /\ cursorCase' = s.cursorCase

Log(s, uploadId, step) ==
    [s EXCEPT !.trace = [i \in DOMAIN s.trace \cup {uploadId} |->
        IF i \in DOMAIN s.trace
        THEN (IF i = uploadId THEN Append(s.trace[i], step) ELSE s.trace[i])
        ELSE <<step>>]]

----------------------------------------------------------------------------
\* The textarea (HTMLTextAreaElement) as the script uses it.

\* editor.value = text: the cursor moves to the end of the text; the scroll
\* offset is kept or reset, as the browser decides (dom).
SetValue(s, text, dom) ==
    [s EXCEPT !.value = text,
              !.selectionStart = Len(text),
              !.selectionEnd = Len(text),
              !.scrollTop = IF dom = "reset" THEN 0 ELSE s.scrollTop]

\* editor.selectionStart = p
SetSelectionStart(s, p) ==
    LET start == Min(p, Len(s.value))
    IN [s EXCEPT !.selectionStart = start,
                 !.selectionEnd = Max(start, s.selectionEnd),
                 !.written = [s.written EXCEPT !.selectionStart = p]]

\* editor.selectionEnd = p
SetSelectionEnd(s, p) ==
    LET end == Min(p, Len(s.value))
    IN [s EXCEPT !.selectionEnd = end,
                 !.selectionStart = Min(s.selectionStart, end),
                 !.written = [s.written EXCEPT !.selectionEnd = p]]

SetScrollTop(s, y) == [s EXCEPT !.scrollTop = y]

----------------------------------------------------------------------------
\* AppState

\* `${Date.now()}-${++this.uploadCounter}`
UploadIdText(t, counter) == ToString(t) \o "-" \o ToString(counter)

\* ++this.uploadCounter
IncrementCounter(s) == [s EXCEPT !.uploadCounter = s.uploadCounter + 1]

\* Mutant of GenerateUploadId: the counter is not advanced.
GenerateUploadIdStuckCounter(s, t) == UploadIdText(t, 1)

GenerateUploadId(s, t) == UploadIdText(t, IncrementCounter(s).uploadCounter)

AddUpload(s, uploadId, position, placeholderText, t) ==
    Log([s EXCEPT !.uploads =
            [i \in DOMAIN s.uploads \cup {uploadId} |->
                IF i = uploadId
                THEN [insertPosition |-> position, placeholderText |-> placeholderText,
                      active |-> TRUE, timestamp |-> t]
                ELSE s.uploads[i]]],
        uploadId, "add")

RemoveUpload(s, uploadId) ==
    Log([s EXCEPT !.uploads = [i \in DOMAIN s.uploads \ {uploadId} |-> s.uploads[i]]],
        uploadId, "remove")

----------------------------------------------------------------------------
\* DOMUtils

SaveEditorState(s) ==
    [selectionStart |-> s.selectionStart, selectionEnd |-> s.selectionEnd,
     scrollTop |-> s.scrollTop, value |-> s.value]

----------------------------------------------------------------------------
\* FileUtils

RECURSIVE FirstCategory(_, _)
FirstCategory(mimeType, i) ==
    IF i > Len(SUPPORTED_MIME_TYPES) THEN "null"
    ELSE IF MimeTest(SUPPORTED_MIME_TYPES[i], mimeType) THEN SUPPORTED_MIME_TYPES[i]
    ELSE FirstCategory(mimeType, i + 1)

GetFileType(file) == FirstCategory(file.type, 1)

\* Mutant of ValidateFile: the size is not checked.
ValidateFileAnySize(file) ==
    IF GetFileType(file) = "null" THEN [valid |-> FALSE, error |-> "filetype"]
    ELSE [valid |-> TRUE, error |-> "null"]

\* Mutant of ValidateFile: the size is checked before the type.
ValidateFileSizeFirst(file) ==
    IF file.size > MAX_FILE_SIZE THEN [valid |-> FALSE, error |-> "filesize"]
    ELSE IF GetFileType(file) = "null" THEN [valid |-> FALSE, error |-> "filetype"]
    ELSE [valid |-> TRUE, error |-> "null"]

ValidateFile(file) ==
    IF GetFileType(file) = "null" THEN [valid |-> FALSE, error |-> "filetype"]
    ELSE IF file.size > MAX_FILE_SIZE THEN [valid |-> FALSE, error |-> "filesize"]
    ELSE [valid |-> TRUE, error |-> "null"]

\* alert(message): no effect on the editor or the registry.
ShowFileError(s, file, errorType) ==
    [s EXCEPT !.alerts = Append(s.alerts, errorType)]

----------------------------------------------------------------------------
\* MarkdownFormatter

\* Mutant of GetMarkdownLink: every file gets the plain link of the fallback.
GetMarkdownLinkPlain(file, url) == <<"[", file.name, "](">> \o url \o <<")">>

GetMarkdownLink(file, url) ==
    LET fileType == GetFileType(file)
    IN IF fileType # "null"
       THEN MimeFormat(fileType, file.name, url)
       ELSE <<"[", file.name, "](">> \o url \o <<")">>

\* Mutant of GetPlaceholderText: the placeholder is written with two dots.
GetPlaceholderTextTwoDots(file, uploadId) ==
    LET fileType == GetFileType(file)
        prefix == IF fileType \in {"image", "video", "audio"} THEN <<"!">> ELSE <<>>
        suffix == IF fileType = "video" THEN <<"|video">>
                  ELSE IF fileType = "audio" THEN <<"|audio">>
                  ELSE IF fileType = "pdf" THEN <<"|attachment">>
                  ELSE <<>>
    IN prefix \o <<"[UPLOADING", ".", ".", uploadId>> \o suffix \o <<"]">>

GetPlaceholderText(file, uploadId) ==
    LET fileType == GetFileType(file)
        prefix == IF fileType \in {"image", "video", "audio"} THEN <<"!">> ELSE <<>>
        suffix == IF fileType = "video" THEN <<"|video">>
                  ELSE IF fileType = "audio" THEN <<"|audio">>
                  ELSE IF fileType = "pdf" THEN <<"|attachment">>
                  ELSE <<>>
    IN prefix \o <<"[UPLOADING", ".", ".", ".", uploadId>> \o suffix \o <<"]">>

\* Property names every object literal inherits from Object.prototype: a lookup
\* by one of them gives a function or an object, which is truthy.
ObjectPrototypeKeys ==
    {"constructor", "toString", "valueOf", "hasOwnProperty", "isPrototypeOf",
     "propertyIsEnumerable", "toLocaleString", "__proto__"}

\* errorMessages[errorType] || UNKNOWN_ERROR; an inherited property is written
\* into the template as its source text.
ErrorMessage(errorType) ==
    CASE errorType = "network"    -> "NETWORK_ERROR"
      [] errorType = "server"     -> "SERVER_ERROR"
      [] errorType = "permission" -> "PERMISSION_ERROR"
      [] errorType = "format"     -> "FORMAT_ERROR"
      [] errorType = "filetype"   -> "TYPE_UNSUPPORTED"
      [] errorType = "filesize"   -> "FILE_TOO_LARGE"
      [] errorType \in ObjectPrototypeKeys -> "String(Object.prototype." \o errorType \o ")"
      [] OTHER                    -> "UNKNOWN_ERROR"

\* Mutant of GetFailureText: the marker does not name the upload.
GetFailureTextNoId(uploadId, errorType) ==
    <<"[UPLOAD_FAILED(", ErrorMessage(errorType), ")", "]">>

GetFailureText(uploadId, errorType) ==
    <<"[UPLOAD_FAILED(", ErrorMessage(errorType), ")-", uploadId, "]">>

FormatContent(content) == CONTENT_FORMAT_BEFORE \o content \o CONTENT_FORMAT_AFTER

----------------------------------------------------------------------------
\* PlaceholderManager

SingleCharTokens == {"!", ".", "[", "]", ")", "x", "\n"}

\* "." of the pattern: any one character but a line terminator.
IsWildcard(tok) == tok \in SingleCharTokens \ {"\n"}

\* "\|[a-z]+" of the pattern.
IsSuffix(tok) == tok \in {"|video", "|audio", "|attachment"}

\* Mutant of BodyEnd: the pattern is built without the upload id.
BodyEndAnyId(text, uploadId, j) ==
    IF /\ j >= 1
       /\ j + 5 <= Len(text)
       /\ text[j] = "[UPLOADING"
       /\ \A d \in 1..3 : IsWildcard(text[j + d])
    THEN IF j + 6 <= Len(text) /\ IsSuffix(text[j + 5]) /\ text[j + 6] = "]" THEN j + 6
         ELSE IF text[j + 5] = "]" THEN j + 5
         ELSE -1
    ELSE -1

\* End offset of a match of  \[UPLOADING...<uploadId>(\|[a-z]+)?\]  whose "["
\* is the token number j of text, or -1.
BodyEnd(text, uploadId, j) ==
    IF /\ j >= 1
       /\ j + 5 <= Len(text)
       /\ text[j] = "[UPLOADING"
       /\ \A d \in 1..3 : IsWildcard(text[j + d])
       /\ text[j + 4] = uploadId
    THEN IF j + 6 <= Len(text) /\ IsSuffix(text[j + 5]) /\ text[j + 6] = "]" THEN j + 6
         ELSE IF text[j + 5] = "]" THEN j + 5
         ELSE -1
    ELSE -1

\* End offset of a match of the whole pattern, (!)? first, starting at token i.
MatchEnd(text, uploadId, i) ==
    IF text[i] = "!" /\ BodyEnd(text, uploadId, i + 1) # -1
    THEN BodyEnd(text, uploadId, i + 1)
    ELSE BodyEnd(text, uploadId, i)

NoMatch == [found |-> FALSE, start |-> -1, end |-> -1, text |-> <<>>]

\* regex.exec(text): the leftmost match.
FindPlaceholder(text, uploadId) ==
    LET starts == {i \in 1..Len(text) : MatchEnd(text, uploadId, i) # -1}
    IN IF starts = {} THEN NoMatch
       ELSE LET i == CHOOSE m \in starts : \A n \in starts : m <= n
                e == MatchEnd(text, uploadId, i)
            IN [found |-> TRUE, start |-> i - 1, end |-> e, text |-> SubSeq(text, i, e)]

\* Mutant of InsertPlaceholder: the scroll offset is not restored and the
\* offset behind the inserted text is recorded as the insert position.
InsertPlaceholderRecordsCursor(s, editorState, placeholderText, uploadId, t, dom) ==
    LET position == editorState.selectionStart
        currentText == s.value
        completeText == FormatContent(placeholderText)
        s1 == SetValue(s, Substring(currentText, 0, position) \o completeText
                           \o SubstringFrom(currentText, position), dom)
        newCursorPosition == position + Len(completeText)
        s2 == SetSelectionStart(s1, newCursorPosition)
        s3 == SetSelectionEnd(s2, newCursorPosition)
    IN AddUpload(Log(s3, uploadId, "insert"), uploadId, newCursorPosition,
                 placeholderText, t)

InsertPlaceholder(s, editorState, placeholderText, uploadId, t, dom) ==
    LET position == editorState.selectionStart
        currentText == s.value
        completeText == FormatContent(placeholderText)
        s1 == SetValue(s, Substring(currentText, 0, position) \o completeText
                           \o SubstringFrom(currentText, position), dom)
        newCursorPosition == position + Len(completeText)
        s2 == SetSelectionStart(s1, newCursorPosition)
        s3 == SetSelectionEnd(s2, newCursorPosition)
        s4 == SetScrollTop(s3, editorState.scrollTop)
    IN AddUpload(Log(s4, uploadId, "insert"), uploadId, position, placeholderText, t)

\* Mutant of AdjustCursorPosition: a cursor inside the placeholder is moved by
\* the length difference only.
AdjustCursorPositionInsideShifted(s, currentState, placeholder, lengthDiff) ==
    LET start == currentState.selectionStart
        end == currentState.selectionEnd
        moved == start >= placeholder.start
    IN SetScrollTop(
           SetSelectionEnd(
               SetSelectionStart(s, IF moved THEN start + lengthDiff ELSE start),
               IF moved THEN end + lengthDiff ELSE end),
           currentState.scrollTop)

AdjustCursorPosition(s, currentState, placeholder, lengthDiff) ==
    LET start == currentState.selectionStart
        end == currentState.selectionEnd
        inside == start >= placeholder.start /\ start <= placeholder.end
        after == start > placeholder.end
        newSelectionStart ==
            IF start < placeholder.start THEN start
            ELSE IF inside
            THEN placeholder.start + (placeholder.end - placeholder.start) + lengthDiff
            ELSE IF after THEN start + lengthDiff
            ELSE start
        newSelectionEnd ==
            IF start < placeholder.start THEN end
            ELSE IF inside THEN newSelectionStart
            ELSE IF after THEN end + lengthDiff
            ELSE end
        taken == IF start < placeholder.start THEN "before"
                 ELSE IF inside THEN "inside"
                 ELSE IF after THEN "after"
                 ELSE "none"
    IN [SetScrollTop(SetSelectionEnd(SetSelectionStart(s, newSelectionStart), newSelectionEnd),
                     currentState.scrollTop)
        EXCEPT !.cursorCase = taken]

\* Mutant of AppendToEditor: the cursor is put behind the old text plus the
\* content, the wrapping forgotten.
AppendToEditorCursorShort(s, content, dom) ==
    LET currentText == s.value
        separated == IF Len(currentText) > 0 /\ ~EndsWith(currentText, "\n")
                     THEN currentText \o <<"\n">> ELSE currentText
        newText == separated \o FormatContent(content)
        s1 == SetValue(s, newText, dom)
        cursor == Len(currentText) + Len(content)
    IN SetSelectionEnd(SetSelectionStart(s1, cursor), cursor)

\* Mutant of AppendToEditor: a separating newline is added before the content
\* whatever the text ends in.
AppendToEditorAlwaysSeparates(s, content, dom) ==
    LET currentText == s.value
        newText == currentText \o <<"\n">> \o FormatContent(content)
        s1 == SetValue(s, newText, dom)
    IN SetSelectionEnd(SetSelectionStart(s1, Len(newText)), Len(newText))

AppendToEditor(s, content, dom) ==
    LET currentText == s.value
        separated == IF Len(currentText) > 0 /\ ~EndsWith(currentText, "\n")
                     THEN currentText \o <<"\n">> ELSE currentText
        newText == separated \o FormatContent(content)
        s1 == SetValue(s, newText, dom)
    IN SetSelectionEnd(SetSelectionStart(s1, Len(newText)), Len(newText))

\* Mutant of ReplacePlaceholder: the splice drops one character too many
\* behind the match.
ReplacePlaceholderOffByOne(s, uploadId, markdownLink, dom) ==
    LET currentState == SaveEditorState(s)
        currentText == currentState.value
        placeholder == FindPlaceholder(currentText, uploadId)
    IN IF ~placeholder.found
       THEN Log(AppendToEditor(s, markdownLink, dom), uploadId, "append")
       ELSE LET lengthDiff == Len(markdownLink) - (placeholder.end - placeholder.start)
                newText == Substring(currentText, 0, placeholder.start) \o markdownLink
                           \o SubstringFrom(currentText, placeholder.end + 1)
            IN Log(AdjustCursorPosition(SetValue(s, newText, dom), currentState,
                                        placeholder, lengthDiff),
                   uploadId, "replace")

ReplacePlaceholder(s, uploadId, markdownLink, dom) ==
    LET currentState == SaveEditorState(s)
        currentText == currentState.value
        placeholder == FindPlaceholder(currentText, uploadId)
    IN IF ~placeholder.found
       THEN Log(AppendToEditor(s, markdownLink, dom), uploadId, "append")
       ELSE LET originalLength == placeholder.end - placeholder.start
                newLength == Len(markdownLink)
                lengthDiff == newLength - originalLength
                newText == Substring(currentText, 0, placeholder.start) \o markdownLink
                           \o SubstringFrom(currentText, placeholder.end)
            IN Log(AdjustCursorPosition(SetValue(s, newText, dom), currentState,
                                        placeholder, lengthDiff),
                   uploadId, "replace")

----------------------------------------------------------------------------
\* UploadService

\* toLowerCase of one word.
LowerCaseOf(tok) ==
    CASE tok = "HTTP" -> "http"
      [] tok = "Network" -> "network"
      [] tok = "Failed to fetch" -> "failed to fetch"
      [] tok = "Permission" -> "permission"
      [] tok = "PARSE" -> "parse"
      [] OTHER -> tok

\* error.toString().toLowerCase(), token by token.
ToLowerCase(text) == [i \in 1..Len(text) |-> LowerCaseOf(text[i])]

\* The texts are tokenised by word; the Chinese words are written "zh:<pinyin>".
\* Mutant of CategorizeError: the server phrases are tested before the
\* permission phrases.
CategorizeErrorServerFirst(error) ==
    LET errorStr == ToLowerCase(error)
    IN IF \/ Includes(errorStr, <<"network">>)
          \/ Includes(errorStr, <<"failed to fetch">>)
          \/ Includes(errorStr, <<"zh:wangluo", "zh:qingqiu", "zh:shibai">>)
       THEN "network"
       ELSE IF \/ Includes(errorStr, <<"500">>)
               \/ Includes(errorStr, <<"503">>)
               \/ Includes(errorStr, <<"zh:fuwuqi">>)
       THEN "server"
       ELSE IF \/ Includes(errorStr, <<"401">>)
               \/ Includes(errorStr, <<"403">>)
               \/ Includes(errorStr, <<"permission">>)
       THEN "permission"
       ELSE IF \/ Includes(errorStr, <<"zh:jiexi">>)
               \/ Includes(errorStr, <<"parse">>)
               \/ Includes(errorStr, <<"format">>)
       THEN "format"
       ELSE "unknown"

\* Mutant of CategorizeError: '403' is not among the permission phrases.
CategorizeErrorWithout403(error) ==
    LET errorStr == ToLowerCase(error)
    IN IF \/ Includes(errorStr, <<"network">>)
          \/ Includes(errorStr, <<"failed to fetch">>)
          \/ Includes(errorStr, <<"zh:wangluo", "zh:qingqiu", "zh:shibai">>)
       THEN "network"
       ELSE IF \/ Includes(errorStr, <<"401">>)
               \/ Includes(errorStr, <<"permission">>)
       THEN "permission"
       ELSE IF \/ Includes(errorStr, <<"500">>)
               \/ Includes(errorStr, <<"503">>)
               \/ Includes(errorStr, <<"zh:fuwuqi">>)
       THEN "server"
       ELSE IF \/ Includes(errorStr, <<"zh:jiexi">>)
               \/ Includes(errorStr, <<"parse">>)
               \/ Includes(errorStr, <<"format">>)
       THEN "format"
       ELSE "unknown"

CategorizeError(error) ==
    LET errorStr == ToLowerCase(error)
    IN IF \/ Includes(errorStr, <<"network">>)
          \/ Includes(errorStr, <<"failed to fetch">>)
          \/ Includes(errorStr, <<"zh:wangluo", "zh:qingqiu", "zh:shibai">>)
       THEN "network"
       ELSE IF \/ Includes(errorStr, <<"401">>)
               \/ Includes(errorStr, <<"403">>)
               \/ Includes(errorStr, <<"permission">>)
       THEN "permission"
       ELSE IF \/ Includes(errorStr, <<"500">>)
               \/ Includes(errorStr, <<"503">>)
               \/ Includes(errorStr, <<"zh:fuwuqi">>)
       THEN "server"
       ELSE IF \/ Includes(errorStr, <<"zh:jiexi">>)
               \/ Includes(errorStr, <<"parse">>)
               \/ Includes(errorStr, <<"format">>)
       THEN "format"
       ELSE "unknown"

\* What the promise of performUpload settles with for a response of the
\* transport: onload with status and body (the tokens of data[0].src, or <<>>
\* when the body has none), or onerror.
PerformUploadSettle(response) ==
    IF response.kind = "error"
    THEN [outcome |-> "rejected", result |-> <<"zh:wangluo", "zh:qingqiu", "zh:shibai">>]
    ELSE IF response.status # 200
    THEN [outcome |-> "rejected",
          result |-> <<"HTTP", "zh:cuowu", ": ", ToString(response.status)>>]
    ELSE IF response.src = <<>>
    THEN [outcome |-> "rejected", result |-> <<"zh:wuxiaode", "zh:xiangying", "zh:shuju">>]
    ELSE [outcome |-> "resolved", result |-> ASSETS_URL_PREFIX \o response.src]

\* performUpload(file) up to the request being sent: the upload awaits.
PerformUpload(s, file, uploadId) ==
    Log([s EXCEPT !.tasks = Append(s.tasks,
            [file |-> file, uploadId |-> uploadId, pc |-> "awaiting",
             outcome |-> "pending", result |-> <<>>])],
        uploadId, "invoke")

\* _executeUpload up to its await.
ExecuteUploadStart(s, file, uploadId) == PerformUpload(s, file, uploadId)

\* Mutant of ExecuteUploadResume: the catch block forgets to clean the registry.
ExecuteUploadResumeNoCleanupOnFailure(s, k, dom) ==
    LET task == s.tasks[k]
        uploadId == task.uploadId
        done == [s EXCEPT !.tasks[k].pc = "done"]
    IN IF task.outcome = "resolved"
       THEN RemoveUpload(ReplacePlaceholder(done, uploadId,
                                            GetMarkdownLink(task.file, task.result), dom),
                         uploadId)
       ELSE ReplacePlaceholder(done, uploadId,
                               GetFailureText(uploadId, CategorizeError(task.result)), dom)

\* Mutant of ExecuteUploadResume: the registry is cleaned only when the
\* placeholder was found (the append path never calls back).
ExecuteUploadResumeNoCleanupOnAppend(s, k, dom) ==
    LET task == s.tasks[k]
        uploadId == task.uploadId
        done == [s EXCEPT !.tasks[k].pc = "done"]
        text == IF task.outcome = "resolved"
                THEN GetMarkdownLink(task.file, task.result)
                ELSE GetFailureText(uploadId, CategorizeError(task.result))
        replaced == ReplacePlaceholder(done, uploadId, text, dom)
    IN IF FindPlaceholder(s.value, uploadId).found
       THEN RemoveUpload(replaced, uploadId)
       ELSE replaced

\* Mutant of ExecuteUploadResume: after the link is written the catch block
\* runs as well.
ExecuteUploadResumeFallsIntoCatch(s, k, dom) ==
    LET task == s.tasks[k]
        uploadId == task.uploadId
        done == [s EXCEPT !.tasks[k].pc = "done"]
        failureText == GetFailureText(uploadId, CategorizeError(task.result))
    IN IF task.outcome = "resolved"
       THEN LET markdownLink == GetMarkdownLink(task.file, task.result)
                linked == RemoveUpload(ReplacePlaceholder(done, uploadId, markdownLink, dom),
                                       uploadId)
            IN RemoveUpload(ReplacePlaceholder(linked, uploadId, failureText, dom), uploadId)
       ELSE RemoveUpload(ReplacePlaceholder(done, uploadId, failureText, dom), uploadId)

\* _executeUpload from its await on, for the settled task number k: the rest
\* of the try block when the promise resolved, the catch block when it rejected.
ExecuteUploadResume(s, k, dom) ==
    LET task == s.tasks[k]
        uploadId == task.uploadId
        done == [s EXCEPT !.tasks[k].pc = "done"]
    IN IF task.outcome = "resolved"
       THEN LET markdownLink == GetMarkdownLink(task.file, task.result)
            IN RemoveUpload(ReplacePlaceholder(done, uploadId, markdownLink, dom), uploadId)
       ELSE LET errorType == CategorizeError(task.result)
                failureText == GetFailureText(uploadId, errorType)
            IN RemoveUpload(ReplacePlaceholder(done, uploadId, failureText, dom), uploadId)

\* Mutant of UploadFile: the transfer is started before the placeholder is
\* inserted.
UploadFileTransferFirst(s, file, t, dom) ==
    LET uploadId == GenerateUploadId(s, t)
        s1 == ExecuteUploadStart(IncrementCounter(s), file, uploadId)
        placeholderText == GetPlaceholderText(file, uploadId)
    IN InsertPlaceholder(s1, SaveEditorState(s1), placeholderText, uploadId, t, dom)

UploadFile(s, file, t, dom) ==
    LET uploadId == GenerateUploadId(s, t)
        s1 == IncrementCounter(s)
        placeholderText == GetPlaceholderText(file, uploadId)
        editorState == SaveEditorState(s1)
        s2 == InsertPlaceholder(s1, editorState, placeholderText, uploadId, t, dom)
    IN ExecuteUploadStart(s2, file, uploadId)

\* One round of the forEach of processFiles, and the body of pasteHandler.
ProcessFile(s, file, t, dom) ==
    LET validation == ValidateFile(file)
    IN IF validation.valid
       THEN UploadFile(s, file, t, dom)
       ELSE ShowFileError(s, file, validation.error)

\* Mutant of ProcessFiles: the files are handled from the last to the first.
RECURSIVE ProcessFilesLastFirst(_, _, _, _)
ProcessFilesLastFirst(s, files, times, dom) ==
    IF files = <<>> THEN s
    ELSE ProcessFile(ProcessFilesLastFirst(s, Tail(files), Tail(times), dom),
                     Head(files), Head(times), dom)

\* The forEach of processFiles; times[i] is what Date.now() returns in round i.
RECURSIVE ProcessFiles(_, _, _, _)
ProcessFiles(s, files, times, dom) ==
    IF files = <<>> THEN s
    ELSE ProcessFiles(ProcessFile(s, Head(files), Head(times), dom),
                      Tail(files), Tail(times), dom)

----------------------------------------------------------------------------
\* Inputs

Epoch == 1000

MaxTicks == 0

MaxClock == Epoch + MaxTicks

Files ==
    { [name |-> "cat.png",  type |-> <<"image", "png">>,       size |-> 5 * 1024 * 1024],
      [name |-> "doc.pdf",  type |-> <<"application", "pdf">>, size |-> MAX_FILE_SIZE],
      [name |-> "huge.png", type |-> <<"image", "png">>,       size |-> 25 * 1024 * 1024],
      [name |-> "note.txt", type |-> <<"text", "plain">>,      size |-> 1024] }

Batches == UNION {[1..n -> Files] : n \in 0..MaxBatch}

Responses ==
    {[kind |-> "load", status |-> 200, src |-> p] :
        p \in {<<"/f/", "2026", "/", "abc.png">>, <<>>}}
    \cup {[kind |-> "load", status |-> st, src |-> <<>>] : st \in {403, 500}}
    \cup {[kind |-> "error", status |-> 0, src |-> <<>>]}

DomReactions == {"keep", "reset"}

InitialText == <<"x", "!">>

InitialScroll == 40

UserTexts == {<<>>, <<"x">>}

\* What the user edits at once: a few characters, or the whole text.
UserRanges ==
    {r \in (0..Len(value)) \X (0..Len(value)) :
        r[1] <= r[2] /\ (r[2] - r[1] <= MaxSpan \/ (r[1] = 0 /\ r[2] = Len(value)))}

ClockReads(n) == {ts \in [1..n -> now..MaxClock] : \A i \in 1..(n - 1) : ts[i] <= ts[i + 1]}

Valid(files) == {i \in 1..Len(files) : ValidateFile(files[i]).valid}

\* The continuation of a settled promise runs before any other handler.
NoMicrotask == \A k \in 1..Len(tasks) : tasks[k].pc # "settled"

----------------------------------------------------------------------------
\* Initializer

\* The #reply-control elements the page creates, and document.body as the
\* target of an observer.
Nodes == 1..MaxNodes
Body == 0

\* An element that the page has not created yet.
Absent == [state |-> "absent", open |-> FALSE, editorControls |-> FALSE]

\* node.isConnected
IsConnected(doc, node) == doc[node].state = "connected"

\* document.querySelector('#reply-control'): the element in the document, 0 for
\* null. The page keeps at most one element with this id in the document.
QuerySelector(doc) ==
    IF \E node \in Nodes : IsConnected(doc, node)
    THEN CHOOSE node \in Nodes : IsConnected(doc, node)
    ELSE 0

\* DOMUtils.isReplyControlOpen
IsReplyControlOpen(doc, element) == element # 0 /\ doc[element].open

\* Initializer.findElements: the cached elements after the call, and whether it
\* succeeded. The editor controls hold the editor input.
FindElements(doc, els) ==
    LET replyControl == QuerySelector(doc)
    IN IF ~IsReplyControlOpen(doc, replyControl) THEN [found |-> FALSE, elements |-> els]
       ELSE IF ~doc[replyControl].editorControls THEN [found |-> FALSE, elements |-> els]
       ELSE [found |-> TRUE, elements |-> [replyControl |-> replyControl]]

\* attemptFullSetup of Initializer.init: the cached elements after the call.
AttemptFullSetup(doc, els) == FindElements(doc, els).elements

\* observer.disconnect(): the observer leaves the registered observers and its
\* queued records are dropped.
Disconnect(registered, id) == {o \in registered : o.id # id}

\* new MutationObserver(callback).observe(target, options)
Observe(registered, id, target) ==
    registered \cup {[id |-> id, target |-> target, records |-> {}]}

\* The closure state of Initializer.init and the registered observers.
Armed == [observers |-> observers, currentObserver |-> currentObserver, timers |-> timers]

\* setupMainReplyObserver(replyNode)
SetupMainReplyObserver(st, doc, replyNode) ==
    LET registered == IF st.currentObserver # 0
                      THEN Disconnect(st.observers, st.currentObserver)
                      ELSE st.observers
        id == st.currentObserver + 1
    IN [observers |-> Observe(registered, id, replyNode),
        currentObserver |-> id,
        timers |-> IF IsReplyControlOpen(doc, replyNode) THEN st.timers + 1 ELSE st.timers]

\* setupWaitForReplyElement()
SetupWaitForReplyElement(st) ==
    LET registered == IF st.currentObserver # 0
                      THEN Disconnect(st.observers, st.currentObserver)
                      ELSE st.observers
        id == st.currentObserver + 1
    IN [observers |-> Observe(registered, id, Body),
        currentObserver |-> id,
        timers |-> st.timers]

\* The callback of the observer of replyNode, called with the queued records:
\* "class" is a change of the class attribute of replyNode, "editor" an
\* insertion below replyNode that holds the editor controls, "other" any other
\* record.
MainCallback(st, doc, replyNode, records) ==
    IF ~IsConnected(doc, replyNode) THEN SetupWaitForReplyElement(st)
    ELSE LET needsReInit == /\ IsReplyControlOpen(doc, replyNode)
                            /\ ("class" \in records \/ "editor" \in records)
         IN IF needsReInit THEN [st EXCEPT !.timers = @ + 1] ELSE st

\* The callback of the observer of document.body.
WaitCallback(st, doc) ==
    LET replyNode == QuerySelector(doc)
    IN IF replyNode # 0 THEN SetupMainReplyObserver(st, doc, replyNode) ELSE st

\* Initializer.init with the document doc.
InitializerInit(doc) ==
    LET initialReplyNode == QuerySelector(doc)
        none == [observers |-> {}, currentObserver |-> 0, timers |-> 0]
        armed == IF initialReplyNode # 0
                 THEN SetupMainReplyObserver(none, doc, initialReplyNode)
                 ELSE SetupWaitForReplyElement(none)
    IN /\ replyNodes = doc
       /\ elements = AttemptFullSetup(doc, [replyControl |-> 0])
       /\ observers = armed.observers
       /\ currentObserver = armed.currentObserver
       /\ timers = armed.timers
       /\ domActions = 0

\* The document with the reply box open and the editor in it.
OpenDocument ==
    [node \in Nodes |-> IF node = 1
                        THEN [state |-> "connected", open |-> TRUE, editorControls |-> TRUE]
                        ELSE Absent]

----------------------------------------------------------------------------
\* The handlers

\* The editor and AppState when the script has started.
EditorInit ==
    /\ value = InitialText
    /\ selectionStart = Len(value)
    /\ selectionEnd = Len(value)
    /\ scrollTop = InitialScroll
    /\ uploads = <<>>
    /\ uploadCounter = 0
    /\ now = Epoch
    /\ tasks = <<>>
    /\ trace = <<>>
    /\ cursorCase = "none"
    /\ userActions = 0

\* The script has started on a page whose reply box is open.
Init == EditorInit /\ InitializerInit(OpenDocument)

\* EventHandlers.pasteHandler with a file on the clipboard.
Paste(file) ==
    /\ NoMicrotask
    /\ ValidateFile(file).valid => uploadCounter < MaxUploads
    /\ \E t \in now..MaxClock, dom \in DomReactions :
        /\ Commit(ProcessFile(State, file, t, dom))
        /\ now' = t
    /\ UNCHANGED userActions
    /\ UNCHANGED setupVars

\* UploadService.processFiles, called by dropHandler and the file picker.
Drop(files) ==
    /\ NoMicrotask
    /\ uploadCounter + Cardinality(Valid(files)) <= MaxUploads
    /\ \E times \in ClockReads(Len(files)), dom \in DomReactions :
        /\ Commit(ProcessFiles(State, files, times, dom))
        /\ now' = IF files = <<>> THEN now ELSE times[Len(files)]
    /\ UNCHANGED userActions
    /\ UNCHANGED setupVars

\* onload / onerror of the request of task k: its promise settles.
Settle(k, response) ==
    /\ NoMicrotask
    /\ tasks[k].pc = "awaiting"
    /\ LET settled == PerformUploadSettle(response)
       IN /\ tasks' = [tasks EXCEPT ![k].pc = "settled",
                                    ![k].outcome = settled.outcome,
                                    ![k].result = settled.result]
          /\ trace' = Log(State, tasks[k].uploadId, "settle").trace
    /\ UNCHANGED <<value, selectionStart, selectionEnd, scrollTop, uploads, uploadCounter,
                   now, cursorCase, userActions>>
    /\ UNCHANGED setupVars

\* The continuation of _executeUpload after its await.
Resume(k) ==
    /\ tasks[k].pc = "settled"
    /\ \E dom \in DomReactions : Commit(ExecuteUploadResume(State, k, dom))
    /\ UNCHANGED <<now, userActions>>
    /\ UNCHANGED setupVars

\* The user replaces the characters [a, b) by text (typing, deleting, or only
\* placing the cursor).
UserEdit(a, b, text) ==
    /\ NoMicrotask
    /\ userActions < MaxUserActions
    /\ value' = Substring(value, 0, a) \o text \o SubstringFrom(value, b)
    /\ selectionStart' = a + Len(text)
    /\ selectionEnd' = a + Len(text)
    /\ userActions' = userActions + 1
    /\ UNCHANGED <<scrollTop, uploads, uploadCounter, now, tasks, trace, cursorCase>>
    /\ UNCHANGED setupVars

Next ==
    \/ \E file \in Files : Paste(file)
    \/ \E files \in Batches : Drop(files)
    \/ \E k \in 1..Len(tasks), response \in Responses : Settle(k, response)
    \/ \E k \in 1..Len(tasks) : Resume(k)
    \/ \E r \in UserRanges, text \in UserTexts : UserEdit(r[1], r[2], text)

Spec == Init /\ [][Next]_vars

\* What Resume(k) does to the position of task k, and all it does to tasks.
Continue(k) ==
    /\ tasks[k].pc = "settled"
    /\ tasks' = [tasks EXCEPT ![k].pc = "done"]

\* The continuation of a settled promise always runs: the microtask queue is
\* drained before any other task. Resume is the only step of Next that moves a
\* task from "settled" to "done", so weak fairness of that move is weak fairness
\* of Resume.
LiveSpec == Spec /\ WF_tasks(\E k \in 1..Len(tasks) : Continue(k))

----------------------------------------------------------------------------
\* One upload from any text, with every kind of file, response and rejection

WideFiles ==
    Files \cup
    { [name |-> "clip.mp4", type |-> <<"video", "mp4">>,       size |-> 1024 * 1024],
      [name |-> "song.mp3", type |-> <<"audio", "mpeg">>,      size |-> 1024 * 1024],
      [name |-> "over.pdf", type |-> <<"application", "pdf">>, size |-> MAX_FILE_SIZE + 1],
      [name |-> "big.zip",  type |-> <<"application", "zip">>, size |-> 25 * 1024 * 1024] }

WideResponses ==
    {[kind |-> "load", status |-> 200, src |-> p] : p \in {<<"/f/abc.png">>, <<>>}}
    \cup {[kind |-> "load", status |-> st, src |-> <<>>] :
             st \in {401, 403, 404, 500, 502, 503}}
    \cup {[kind |-> "error", status |-> 0, src |-> <<>>]}

\* Words of error texts: the phrases _categorizeError looks for, some of them
\* capitalised, and one it does not know.
ErrorWords ==
    {"network", "Network", "Failed to fetch", "401", "403", "Permission", "500", "503",
     "zh:fuwuqi", "zh:jiexi", "PARSE", "format", "timeout"}

\* Texts a promise may reject with: one word, or two words of any two kinds.
ErrorTexts ==
    {<<w>> : w \in ErrorWords}
    \cup {<<a, b>> : a, b \in {"Network", "403", "500", "PARSE", "timeout"}}

\* Texts the editor may hold when a file arrives; the last one holds text that
\* looks like the placeholders of the first upload and of a foreign one.
WideTexts ==
    { <<>>, <<"x">>, <<"x", "!">>,
      <<"[UPLOADING", ".", ".", ".", "999-1", "]", "\n">>,
      <<"!", "[UPLOADING", ".", ".", ".", UploadIdText(Epoch, 1), "]">> }

WideInit ==
    /\ value \in WideTexts
    /\ selectionStart \in {0, Len(value) \div 2, Len(value)}
    /\ selectionEnd = selectionStart
    /\ scrollTop = InitialScroll
    /\ uploads = <<>>
    /\ uploadCounter = 0
    /\ now = Epoch
    /\ tasks = <<>>
    /\ trace = <<>>
    /\ cursorCase = "none"
    /\ userActions = 0
    /\ InitializerInit(OpenDocument)

\* The promise of task k rejects with the text error: the catch block of
\* _executeUpload takes whatever value the await throws.
Reject(k, error) ==
    /\ NoMicrotask
    /\ tasks[k].pc = "awaiting"
    /\ tasks' = [tasks EXCEPT ![k].pc = "settled",
                              ![k].outcome = "rejected",
                              ![k].result = error]
    /\ trace' = Log(State, tasks[k].uploadId, "settle").trace
    /\ UNCHANGED <<value, selectionStart, selectionEnd, scrollTop, uploads, uploadCounter,
                   now, cursorCase, userActions>>
    /\ UNCHANGED setupVars

WideNext ==
    \/ \E file \in WideFiles : tasks = <<>> /\ Paste(file)
    \/ \E k \in 1..Len(tasks), response \in WideResponses : Settle(k, response)
    \/ \E k \in 1..Len(tasks), error \in ErrorTexts : Reject(k, error)
    \/ \E k \in 1..Len(tasks) : Resume(k)

WideSpec == WideInit /\ [][WideNext]_vars

----------------------------------------------------------------------------
\* One upload while the user selects a range of the text

\* The user selects the characters [a, b).
Select(a, b) ==
    /\ NoMicrotask
    /\ userActions < MaxUserActions
    /\ selectionStart' = a
    /\ selectionEnd' = b
    /\ userActions' = userActions + 1
    /\ UNCHANGED <<value, scrollTop, uploads, uploadCounter, now, tasks, trace, cursorCase>>
    /\ UNCHANGED setupVars

\* The files pasted here are attachments: their placeholder is longer than
\* every failure marker and shorter than every link, in characters as in tokens.
SelectFiles == {file \in Files : GetFileType(file) = "pdf"}

SelectNext ==
    \/ \E file \in SelectFiles : tasks = <<>> /\ Paste(file)
    \/ \E a \in 0..Len(value), b \in 0..Len(value) : a <= b /\ Select(a, b)
    \/ \E k \in 1..Len(tasks), response \in Responses : Settle(k, response)
    \/ \E k \in 1..Len(tasks) : Resume(k)

SelectSpec == Init /\ [][SelectNext]_vars

----------------------------------------------------------------------------
\* The page changes the document while the initializer watches it

\* A mutation record of the given kind is queued for every connected observer
\* whose target is among the targets: the node the change happened at and, for
\* an observer with subtree, its ancestors.
Queue(registered, targets, kind) ==
    {IF o.target \in targets THEN [o EXCEPT !.records = @ \cup {kind}] ELSE o :
        o \in registered}

\* The targets whose observers see a change of the child list at or below node.
Ancestors(node) == {node} \cup (IF IsConnected(replyNodes, node) THEN {Body} ELSE {})

\* The page appends a new #reply-control to the document; the record's target
\* is the parent, an element below document.body.
AddReplyNode(node, open, editorControls) ==
    /\ domActions < MaxDomActions
    /\ QuerySelector(replyNodes) = 0
    /\ replyNodes[node].state = "absent"
    /\ \A other \in 1..(node - 1) : replyNodes[other].state # "absent"
    /\ replyNodes' = [replyNodes EXCEPT ![node] =
           [state |-> "connected", open |-> open, editorControls |-> editorControls]]
    /\ observers' = Queue(observers, {Body}, "other")
    /\ domActions' = domActions + 1
    /\ UNCHANGED <<currentObserver, timers, elements>>
    /\ UNCHANGED uploadVars

\* The page removes #reply-control from its parent; the record's target is the
\* parent, which the observer of the removed element does not watch.
RemoveReplyNode(node) ==
    /\ domActions < MaxDomActions
    /\ IsConnected(replyNodes, node)
    /\ replyNodes' = [replyNodes EXCEPT ![node].state = "detached"]
    /\ observers' = Queue(observers, {Body}, "other")
    /\ domActions' = domActions + 1
    /\ UNCHANGED <<currentObserver, timers, elements>>
    /\ UNCHANGED uploadVars

\* The page adds or removes the class "closed" of a #reply-control; the
\* observer of document.body does not watch attributes.
ToggleClass(node) ==
    /\ domActions < MaxDomActions
    /\ replyNodes[node].state # "absent"
    /\ replyNodes' = [replyNodes EXCEPT ![node].open = ~@]
    /\ observers' = Queue(observers, {node}, "class")
    /\ domActions' = domActions + 1
    /\ UNCHANGED <<currentObserver, timers, elements>>
    /\ UNCHANGED uploadVars

\* The page inserts the editor controls below a #reply-control.
AddEditorControls(node) ==
    /\ domActions < MaxDomActions
    /\ replyNodes[node].state # "absent"
    /\ ~replyNodes[node].editorControls
    /\ replyNodes' = [replyNodes EXCEPT ![node].editorControls = TRUE]
    /\ observers' = Queue(observers, Ancestors(node), "editor")
    /\ domActions' = domActions + 1
    /\ UNCHANGED <<currentObserver, timers, elements>>
    /\ UNCHANGED uploadVars

\* The page removes the editor controls of a #reply-control, in the document or
\* detached from it; the record has no added nodes.
RemoveEditorControls(node) ==
    /\ domActions < MaxDomActions
    /\ replyNodes[node].state # "absent"
    /\ replyNodes[node].editorControls
    /\ replyNodes' = [replyNodes EXCEPT ![node].editorControls = FALSE]
    /\ observers' = Queue(observers, Ancestors(node), "other")
    /\ domActions' = domActions + 1
    /\ UNCHANGED <<currentObserver, timers, elements>>
    /\ UNCHANGED uploadVars

\* The queued records of a connected observer are delivered to its callback.
Deliver(o) ==
    /\ o.records # {}
    /\ LET taken == [Armed EXCEPT !.observers =
                        {IF p.id = o.id THEN [p EXCEPT !.records = {}] ELSE p : p \in observers}]
           after == IF o.target = Body
                    THEN WaitCallback(taken, replyNodes)
                    ELSE MainCallback(taken, replyNodes, o.target, o.records)
       IN /\ observers' = after.observers
          /\ currentObserver' = after.currentObserver
          /\ timers' = after.timers
    /\ UNCHANGED <<replyNodes, elements, domActions>>
    /\ UNCHANGED uploadVars

\* A timer set by setTimeout(attemptFullSetup, ...) fires.
TimerFires ==
    /\ timers > 0
    /\ timers' = timers - 1
    /\ elements' = AttemptFullSetup(replyNodes, elements)
    /\ UNCHANGED <<replyNodes, observers, currentObserver, domActions>>
    /\ UNCHANGED uploadVars

\* The documents the script may start on: no reply box, a closed one without
\* an editor, an open one with the editor.
InitialDocuments ==
    { [node \in Nodes |-> Absent],
      [node \in Nodes |-> IF node = 1
                          THEN [state |-> "connected", open |-> FALSE, editorControls |-> FALSE]
                          ELSE Absent],
      OpenDocument }

SetupInit == EditorInit /\ \E doc \in InitialDocuments : InitializerInit(doc)

SetupNext ==
    \/ \E node \in Nodes, open \in BOOLEAN, editorControls \in BOOLEAN :
           AddReplyNode(node, open, editorControls)
    \/ \E node \in Nodes : RemoveReplyNode(node)
    \/ \E node \in Nodes : ToggleClass(node)
    \/ \E node \in Nodes : AddEditorControls(node)
    \/ \E node \in Nodes : RemoveEditorControls(node)
    \/ \E o \in observers : Deliver(o)
    \/ TimerFires

SetupSpec == SetupInit /\ [][SetupNext]_vars

\* The browser delivers queued mutation records at the end of the running task
\* and fires every pending timer; the page is free to stop changing the
\* document.
SetupLiveSpec ==
    /\ SetupSpec
    /\ WF_setupVars(\E o \in observers : Deliver(o))
    /\ WF_setupVars(TimerFires)

----------------------------------------------------------------------------
\* Properties

\* The steps of one upload, in the order the specification gives them.
Lifecycle(closing) == <<"insert", "add", "invoke", "settle", closing, "remove">>

IsPrefix(a, b) == Len(a) <= Len(b) /\ SubSeq(b, 1, Len(a)) = a

TaskIds == {tasks[k].uploadId : k \in 1..Len(tasks)}

\* C4: for every upload, the placeholder insertion and the registry add come
\* before the transport is invoked, and the transport settles before the
\* replace-or-append of that upload; no interleaving reorders these steps.
C4_PerUploadOrder ==
    /\ DOMAIN trace = TaskIds
    /\ \A id \in DOMAIN trace :
          \/ IsPrefix(trace[id], Lifecycle("replace"))
          \/ IsPrefix(trace[id], Lifecycle("append"))
    /\ \A k \in 1..Len(tasks) :
          LET steps == trace[tasks[k].uploadId]
          IN /\ Len(steps) >= 3
             /\ tasks[k].pc = "awaiting" <=> Len(steps) = 3
             /\ tasks[k].pc = "settled" <=> Len(steps) = 4
             /\ tasks[k].pc = "done" <=> Len(steps) = 6

\* Two uploads went through all their steps, one replaced and one appended,
\* with a user edit in between.
C4_Witness ==
    /\ Len(tasks) = 2
    /\ userActions = 1
    /\ trace[tasks[1].uploadId] = Lifecycle("replace")
    /\ trace[tasks[2].uploadId] = Lifecycle("append")

\* C10: AppState.uploads holds a record for an upload id exactly when that
\* id's placeholder has been inserted and its replace-or-append has not run;
\* rejected files have no record.
C10_RegistryLifecycle ==
    /\ DOMAIN uploads \subseteq TaskIds
    /\ \A k \in 1..Len(tasks) :
          LET id == tasks[k].uploadId
              steps == {trace[id][i] : i \in 1..Len(trace[id])}
          IN /\ ValidateFile(tasks[k].file).valid
             /\ id \in DOMAIN uploads <=>
                   ("insert" \in steps /\ "replace" \notin steps /\ "append" \notin steps)
             /\ id \in DOMAIN uploads =>
                   /\ uploads[id].placeholderText = GetPlaceholderText(tasks[k].file, id)
                   /\ uploads[id].active

\* One upload is over and gone from the registry while the other still has its
\* record.
C10_Witness ==
    /\ Len(tasks) = 2
    /\ tasks[1].pc = "done"
    /\ tasks[2].pc = "awaiting"
    /\ DOMAIN uploads = {tasks[2].uploadId}

----------------------------------------------------------------------------
\* Properties of the step that resumes _executeUpload for task k.

Resumed(k) == tasks[k].pc = "settled" /\ tasks'[k].pc = "done"

\* The text the resumed _executeUpload hands to replacePlaceholder.
ResultText(k) ==
    IF tasks[k].outcome = "resolved"
    THEN GetMarkdownLink(tasks[k].file, tasks[k].result)
    ELSE GetFailureText(tasks[k].uploadId, CategorizeError(tasks[k].result))

Match(k) == FindPlaceholder(value, tasks[k].uploadId)

Finished(k, closing) ==
    /\ k <= Len(tasks)
    /\ tasks[k].pc = "done"
    /\ trace[tasks[k].uploadId] = Lifecycle(closing)

\* C2: when replacePlaceholder finds no match for the id in the current text,
\* the old text is kept as a prefix of the new one, the replacement occurs in
\* the part appended after it, and both selection offsets equal the new length;
\* for every text, the empty one included.
C2_FallbackAppend ==
    [][\A k \in 1..Len(tasks) :
          (Resumed(k) /\ ~Match(k).found) =>
             /\ IsPrefix(value, value')
             /\ Includes(SubstringFrom(value', Len(value)), ResultText(k))
             /\ selectionStart' = Len(value')
             /\ selectionEnd' = Len(value')]_vars

\* The user emptied the editor, and the link or marker was appended to the
\* empty text.
C2_Witness ==
    \E k \in 1..Len(tasks) :
        /\ Finished(k, "append")
        /\ Len(tasks) = 1
        /\ userActions = 1
        /\ value = FormatContent(ResultText(k))
        /\ selectionStart = Len(value)

\* C3: with the placeholder matched at [s, e), the cursor c read at replace
\* time and a replacement of length n, the cursor after replacePlaceholder is
\* c if c < s, s + n if s <= c <= e, and c + (n - (e - s)) if c > e.
C3_CursorAdjustment ==
    [][\A k \in 1..Len(tasks) :
          (Resumed(k) /\ Match(k).found) =>
             LET c == selectionStart
                 s == Match(k).start
                 e == Match(k).end
                 n == Len(ResultText(k))
             IN selectionStart' = IF c < s THEN c
                                  ELSE IF c <= e THEN s + n
                                  ELSE c + (n - (e - s))]_vars

\* The user put the cursor inside the placeholder, and the replacement moved it
\* right behind the new text.
C3_Witness ==
    \E k \in 1..Len(tasks) :
        /\ Finished(k, "replace")
        /\ Len(tasks) = 1
        /\ cursorCase = "inside"
        /\ userActions = 1
        /\ selectionStart >= Len(ResultText(k))
        /\ Substring(value, selectionStart - Len(ResultText(k)), selectionStart) = ResultText(k)
        /\ selectionEnd = selectionStart

\* C9: when the placeholder is matched at [s, e), the text after
\* replacePlaceholder is old[0..s) + replacement + old[e..end): nothing outside
\* the matched span changes, the newlines around the placeholder included.
C9_ReplaceFrame ==
    [][\A k \in 1..Len(tasks) :
          (Resumed(k) /\ Match(k).found) =>
             value' = Substring(value, 0, Match(k).start) \o ResultText(k)
                      \o SubstringFrom(value, Match(k).end)]_vars

\* A link or marker stands where the placeholder was, between the newlines
\* that were inserted around the placeholder.
C9_Witness ==
    \E k \in 1..Len(tasks) :
        /\ Finished(k, "replace")
        /\ Includes(value, FormatContent(ResultText(k)))
        /\ tasks[k].outcome = "rejected"

\* C5: when two uploads both have their placeholders in the text and one
\* transfer settles, its replacement lands in the span of its own placeholder
\* and the other placeholder is not matched, changed or removed; whichever
\* settles first, the text holds both results and neither placeholder in the
\* end.
C5_IndependentReplacement ==
    [][\A k \in 1..Len(tasks), j \in 1..Len(tasks) :
          /\ (Resumed(k) /\ j # k /\ tasks[j].pc = "awaiting"
                /\ Match(k).found /\ Match(j).found) =>
                LET mine == Match(k)
                    other == Match(j)
                    shift == IF other.start >= mine.end
                             THEN Len(ResultText(k)) - (mine.end - mine.start) ELSE 0
                    later == FindPlaceholder(value', tasks[j].uploadId)
                IN /\ other.end <= mine.start \/ mine.end <= other.start
                   /\ Substring(value', mine.start, mine.start + Len(ResultText(k)))
                         = ResultText(k)
                   /\ later.found
                   /\ later.text = other.text
                   /\ later.start = other.start + shift
                   /\ ~FindPlaceholder(value', tasks[k].uploadId).found
          /\ (Resumed(k) /\ j # k /\ tasks[j].pc = "done"
                /\ Match(k).found /\ Includes(value, ResultText(j))) =>
                /\ Includes(value', ResultText(j))
                /\ Includes(value', ResultText(k))
                /\ ~FindPlaceholder(value', tasks[k].uploadId).found
                /\ ~FindPlaceholder(value', tasks[j].uploadId).found]_vars

\* The second upload's transfer settled first: its result is in the text and
\* the first upload's placeholder is still there, found by its id.
C5_Witness ==
    /\ Len(tasks) = 2
    /\ Finished(2, "replace")
    /\ tasks[1].pc = "awaiting"
    /\ Includes(value, ResultText(2))
    /\ FindPlaceholder(value, tasks[1].uploadId).found
    /\ FindPlaceholder(value, tasks[1].uploadId).text
          = GetPlaceholderText(tasks[1].file, tasks[1].uploadId)

ErrorMessages == {ErrorMessage(errorType) : errorType \in ERROR_TYPES}

\* The text holds a failure marker for uploadId.
HasFailureMarker(text, uploadId) ==
    \E i \in 1..(Len(text) - 4) :
        /\ text[i] = "[UPLOAD_FAILED("
        /\ text[i + 1] \in ErrorMessages
        /\ text[i + 2] = ")-"
        /\ text[i + 3] = uploadId
        /\ text[i + 4] = "]"

\* C7: every transfer that rejects ends with a failure marker for its upload id
\* written into the text, in place of the placeholder or appended; the
\* placeholder is never left as the only trace.
C7_RejectionLeavesMarker ==
    [][\A k \in 1..Len(tasks) :
          (Resumed(k) /\ tasks[k].outcome = "rejected") =>
             /\ HasFailureMarker(value', tasks[k].uploadId)
             /\ ~HasFailureMarker(value, tasks[k].uploadId)
             /\ Match(k).found => ~FindPlaceholder(value', tasks[k].uploadId).found]_vars

\* A transfer was rejected after the user had damaged the placeholder: the
\* marker was appended.
C7_Witness ==
    \E k \in 1..Len(tasks) :
        /\ Finished(k, "append")
        /\ tasks[k].outcome = "rejected"
        /\ userActions = 1
        /\ HasFailureMarker(value, tasks[k].uploadId)

\* A file the claim speaks of as valid: of a supported type and not over
\* MAX_FILE_SIZE.
IsValid(file) ==
    /\ \E i \in 1..Len(SUPPORTED_MIME_TYPES) : MimeTest(SUPPORTED_MIME_TYPES[i], file.type)
    /\ file.size <= MAX_FILE_SIZE

\* The kind of error shown for a file that is not valid.
ErrorOf(file) ==
    IF \E i \in 1..Len(SUPPORTED_MIME_TYPES) : MimeTest(SUPPORTED_MIME_TYPES[i], file.type)
    THEN "filesize" ELSE "filetype"

SameButAlerts(a, b) == [a EXCEPT !.alerts = <<>>] = [b EXCEPT !.alerts = <<>>]

\* C6: a file of an unsupported type or over MAX_FILE_SIZE gets no
\* placeholder, no upload id and no transfer, and the text, the cursor and the
\* registry stay as they are, in pasteHandler and in processFiles; the valid
\* files of the same batch are uploaded as if the rejected ones were not there.
C6_LocalRejection ==
    NoMicrotask =>
        \A dom \in DomReactions, t \in now..MaxClock :
            /\ \A file \in Files :
                  ~IsValid(file) =>
                      ProcessFile(State, file, t, dom)
                          = [State EXCEPT !.alerts = <<ErrorOf(file)>>]
            /\ \A files \in Batches :
                  LET accepted == SelectSeq(files, IsValid)
                      refused == SelectSeq(files, LAMBDA f : ~IsValid(f))
                      times == [i \in 1..Len(files) |-> t]
                      all == ProcessFiles(State, files, times, dom)
                      only == ProcessFiles(State, accepted, times, dom)
                  IN (refused # <<>> /\ uploadCounter + Len(accepted) <= MaxUploads) =>
                        /\ SameButAlerts(all, only)
                        /\ all.alerts = [i \in 1..Len(refused) |-> ErrorOf(refused[i])]
                        /\ Len(all.tasks) = Len(tasks) + Len(accepted)
                        /\ all.uploadCounter = uploadCounter + Len(accepted)

\* A state in which files are handled: an upload is in flight in a text the
\* user has edited, and one more upload fits the bound.
C6_Witness ==
    /\ NoMicrotask
    /\ Len(tasks) = 1
    /\ tasks[1].pc = "awaiting"
    /\ userActions = 1
    /\ uploadCounter < MaxUploads

\* C1: once its transfer has settled, every upload has its registry record
\* removed, whether the transfer succeeded or failed and whether the
\* placeholder was found or the text appended; when all transfers are over the
\* registry is empty.
C1_RegistryCleanup ==
    /\ \A k \in 1..MaxUploads :
          (k <= Len(tasks) /\ tasks[k].pc = "settled")
             ~> (k <= Len(tasks) /\ tasks[k].pc = "done"
                   /\ tasks[k].uploadId \notin DOMAIN uploads)
    /\ []((\A k \in 1..Len(tasks) : tasks[k].pc = "done") => DOMAIN uploads = {})

\* Two uploads are over, one replaced after a success and one appended after a
\* failure, and the registry is empty.
C1_Witness ==
    /\ Len(tasks) = 2
    /\ \E k \in 1..2 : Finished(k, "replace") /\ tasks[k].outcome = "resolved"
    /\ \E k \in 1..2 : Finished(k, "append") /\ tasks[k].outcome = "rejected"
    /\ DOMAIN uploads = {}

\* The place where the placeholder of task k, as it was inserted, stands in
\* the text.
Placements(k) ==
    LET inserted == uploads[tasks[k].uploadId].placeholderText
    IN {p \in 0..(Len(value) - Len(inserted)) :
          Substring(value, p, p + Len(inserted)) = inserted}

\* C8: if the user only edits outside the placeholder's span, the replacement
\* is written exactly where the placeholder now sits and every character
\* outside that span is kept.
C8_Relocation ==
    [][\A k \in 1..Len(tasks) :
          Resumed(k) =>
             \A p \in Placements(k) :
                value' = Substring(value, 0, p) \o ResultText(k)
                         \o SubstringFrom(value, p + Len(uploads[tasks[k].uploadId].placeholderText))]_vars

\* C11: when the placeholder is not found, the new text is the old text, then
\* one separating newline exactly when the old text is not empty and does not
\* end in a newline, then the replacement wrapped in the configured leading and
\* trailing newlines.
C11_AppendForm ==
    [][\A k \in 1..Len(tasks) :
          (Resumed(k) /\ ~Match(k).found) =>
             LET separator == IF value # <<>> /\ value[Len(value)] # "\n"
                              THEN <<"\n">> ELSE <<>>
             IN value' = value \o separator \o CONTENT_FORMAT_BEFORE
                         \o ResultText(k) \o CONTENT_FORMAT_AFTER]_vars

\* The user replaced the whole text by a character, and the result was
\* appended behind a separating newline.
C11_Witness ==
    \E k \in 1..Len(tasks) :
        /\ Finished(k, "append")
        /\ Len(tasks) = 1
        /\ value = <<"x", "\n">> \o CONTENT_FORMAT_BEFORE \o ResultText(k)
                   \o CONTENT_FORMAT_AFTER

\* A handler step that started exactly one upload.
Inserted == Len(tasks') = Len(tasks) + 1

\* C12: insertPlaceholder with the saved cursor p on the text t gives
\* t[0..p) + "\n" + placeholder + "\n\n" + t[p..), puts both selection offsets
\* at p plus the length of the wrapped text, restores the saved scroll offset
\* and records p as the upload's insertPosition.
C12_InsertEffect ==
    [][Inserted =>
          LET p == selectionStart
              task == tasks'[Len(tasks')]
              placeholder == GetPlaceholderText(task.file, task.uploadId)
              wrapped == <<"\n">> \o placeholder \o <<"\n", "\n">>
          IN /\ value' = Substring(value, 0, p) \o wrapped \o SubstringFrom(value, p)
             /\ selectionStart' = p + Len(wrapped)
             /\ selectionEnd' = p + Len(wrapped)
             /\ scrollTop' = scrollTop
             /\ uploads'[task.uploadId].insertPosition = p
             /\ uploads'[task.uploadId].placeholderText = placeholder]_vars

\* The user put the cursor between the two characters of the text, and a
\* pasted file's placeholder was inserted there.
C12_Witness ==
    /\ Len(tasks) = 1
    /\ tasks[1].pc = "awaiting"
    /\ userActions = 1
    /\ LET placeholder == GetPlaceholderText(tasks[1].file, tasks[1].uploadId)
       IN /\ value = <<"x", "\n">> \o placeholder \o <<"\n", "\n", "!">>
          /\ selectionStart = Len(placeholder) + 4
          /\ selectionEnd = selectionStart
          /\ scrollTop = InitialScroll
          /\ uploads[tasks[1].uploadId].insertPosition = 1

\* C13: for every generated upload id and every category (image, video, audio,
\* pdf) the placeholder text holds the id, and once it is inserted at any place
\* of a text that holds no other match for that id, findPlaceholder finds it by
\* the id: the matched text is the generated placeholder and the span is where
\* it was inserted.
C13_PlaceholderRoundTrip ==
    [][Inserted =>
          LET task == tasks'[Len(tasks')]
              uploadId == task.uploadId
              placeholder == uploads'[uploadId].placeholderText
              at == selectionStart + Len(CONTENT_FORMAT_BEFORE)
              located == FindPlaceholder(value', uploadId)
          IN /\ \E i \in 1..Len(placeholder) : placeholder[i] = uploadId
             /\ ~FindPlaceholder(value, uploadId).found =>
                   /\ located.found
                   /\ located.text = placeholder
                   /\ located.start = at
                   /\ located.end = at + Len(placeholder)]_vars

\* A video's placeholder was inserted into a text that holds a placeholder of a
\* foreign id, and is found by its own id.
C13_Witness ==
    /\ Len(tasks) = 1
    /\ tasks[1].pc = "awaiting"
    /\ GetFileType(tasks[1].file) = "video"
    /\ FindPlaceholder(value, "999-1").found
    /\ FindPlaceholder(value, tasks[1].uploadId).found
    /\ FindPlaceholder(value, tasks[1].uploadId).text
          = <<"!", "[UPLOADING", ".", ".", ".", tasks[1].uploadId, "|video", "]">>

\* The order in which the kinds are tested, and the phrases of each kind.
Priority == <<"network", "permission", "server", "format">>

Phrases(kind) ==
    CASE kind = "network" ->
            {<<"network">>, <<"failed to fetch">>, <<"zh:wangluo", "zh:qingqiu", "zh:shibai">>}
      [] kind = "permission" -> {<<"401">>, <<"403">>, <<"permission">>}
      [] kind = "server" -> {<<"500">>, <<"503">>, <<"zh:fuwuqi">>}
      [] kind = "format" -> {<<"zh:jiexi">>, <<"parse">>, <<"format">>}

\* The kinds whose phrases the lower-cased text contains, by their rank.
Hits(text) ==
    {i \in 1..Len(Priority) :
        \E phrase \in Phrases(Priority[i]) : Includes(ToLowerCase(text), phrase)}

\* The earliest kind in the order whose phrases the text contains.
Classified(text) ==
    IF Hits(text) = {} THEN "unknown"
    ELSE Priority[CHOOSE i \in Hits(text) : \A j \in Hits(text) : i <= j]

\* The failure marker of uploadId in the text carries the message of kind.
MarkerOfKind(text, uploadId, kind) ==
    \E i \in 1..(Len(text) - 4) :
        /\ text[i] = "[UPLOAD_FAILED("
        /\ text[i + 1] = ErrorMessage(kind)
        /\ text[i + 2] = ")-"
        /\ text[i + 3] = uploadId
        /\ text[i + 4] = "]"

\* C14: _categorizeError lower-cases the error's text and returns the first
\* kind whose phrases it contains, in the order network, permission, server,
\* format, and unknown when it contains none; a text with phrases of two kinds
\* gets the earlier kind.
C14_ClassificationPriority ==
    [][\A k \in 1..Len(tasks) :
          (Resumed(k) /\ tasks[k].outcome = "rejected") =>
             /\ CategorizeError(tasks[k].result) = Classified(tasks[k].result)
             /\ MarkerOfKind(value', tasks[k].uploadId, Classified(tasks[k].result))]_vars

\* A transfer rejected with a text that holds a format phrase in capitals
\* followed by a server phrase, and the marker says server.
C14_Witness ==
    \E k \in 1..Len(tasks) :
        /\ tasks[k].pc = "done"
        /\ tasks[k].result = <<"PARSE", "500">>
        /\ Hits(tasks[k].result) = {3, 4}
        /\ MarkerOfKind(value, tasks[k].uploadId, "server")

\* The text performUpload rejects with for a response of the transport.
RejectionOf(response) == PerformUploadSettle(response).result

\* C15: a transfer whose response has status 200 but no data[0].src ends with
\* the upload classified as format, and the failure marker written to the text
\* carries the format message.
C15_MissingSrcIsFormat ==
    [][\A k \in 1..Len(tasks) :
          (/\ Resumed(k)
           /\ tasks[k].outcome = "rejected"
           /\ tasks[k].result = RejectionOf([kind |-> "load", status |-> 200, src |-> <<>>]))
             => /\ CategorizeError(tasks[k].result) = "format"
                /\ MarkerOfKind(value', tasks[k].uploadId, "format")]_vars

\* The server-side error statuses among the responses.
ServerStatuses == {r.status : r \in {w \in WideResponses : w.kind = "load"}} \cap (500..599)

\* C16: a transfer whose response carries a 5xx status (500, 502, 503) ends
\* with the upload classified as server.
C16_ServerStatusIsServer ==
    [][\A k \in 1..Len(tasks) :
          (/\ Resumed(k)
           /\ tasks[k].outcome = "rejected"
           /\ \E st \in ServerStatuses :
                 tasks[k].result = RejectionOf([kind |-> "load", status |-> st, src |-> <<>>]))
             => /\ CategorizeError(tasks[k].result) = "server"
                /\ MarkerOfKind(value', tasks[k].uploadId, "server")]_vars

\* C17: a transfer that rejects with a text containing "403" and no network
\* phrase is classified as permission, and a placeholder still in the text is
\* replaced by exactly the failure marker with the permission message and the
\* upload's id.
C17_ForbiddenIsPermission ==
    [][\A k \in 1..Len(tasks) :
          (/\ Resumed(k)
           /\ tasks[k].outcome = "rejected"
           /\ Includes(tasks[k].result, <<"403">>)
           /\ 1 \notin Hits(tasks[k].result))
             => /\ CategorizeError(tasks[k].result) = "permission"
                /\ Match(k).found =>
                      value' = Substring(value, 0, Match(k).start)
                               \o <<"[UPLOAD_FAILED(", "PERMISSION_ERROR", ")-",
                                    tasks[k].uploadId, "]">>
                               \o SubstringFrom(value, Match(k).end)]_vars

\* The transport answered 403 and the placeholder was replaced by the marker
\* with the permission message.
C17_Witness ==
    \E k \in 1..Len(tasks) :
        /\ Finished(k, "replace")
        /\ tasks[k].result = RejectionOf([kind |-> "load", status |-> 403, src |-> <<>>])
        /\ MarkerOfKind(value, tasks[k].uploadId, "permission")
        /\ ~Includes(value, GetPlaceholderText(tasks[k].file, tasks[k].uploadId))

\* What the claim gives for a file: filetype when no category matches the MIME
\* type, filesize when one matches and the size is over 20 MiB, valid otherwise.
Verdict(file) ==
    IF ~\E i \in 1..Len(SUPPORTED_MIME_TYPES) : MimeTest(SUPPORTED_MIME_TYPES[i], file.type)
    THEN [valid |-> FALSE, error |-> "filetype"]
    ELSE IF file.size > 20 * 1024 * 1024
    THEN [valid |-> FALSE, error |-> "filesize"]
    ELSE [valid |-> TRUE, error |-> "null"]

\* C18: validateFile returns filetype when no category matches the MIME type
\* whatever the size, filesize when a category matches and the size is strictly
\* over MAX_FILE_SIZE, and valid otherwise; a file of exactly MAX_FILE_SIZE
\* bytes is valid and an unsupported oversized file is reported as filetype.
\* The handler shows the error of the verdict or starts the upload.
C18_ValidateFile ==
    \A file \in WideFiles :
        /\ ValidateFile(file) = Verdict(file)
        /\ file.size = MAX_FILE_SIZE /\ GetFileType(file) # "null" => ValidateFile(file).valid
        /\ file.size > MAX_FILE_SIZE /\ GetFileType(file) = "null"
              => ValidateFile(file).error = "filetype"
        /\ tasks = <<>> =>
              LET handled == ProcessFile(State, file, now, "keep")
              IN /\ handled.alerts = IF Verdict(file).valid THEN <<>>
                                     ELSE <<Verdict(file).error>>
                 /\ Len(handled.tasks) = IF Verdict(file).valid THEN 1 ELSE 0

\* A pdf of exactly MAX_FILE_SIZE bytes was accepted and its upload started.
C18_Witness ==
    /\ Len(tasks) = 1
    /\ tasks[1].file.type = <<"application", "pdf">>
    /\ tasks[1].file.size = 20 * 1024 * 1024
    /\ tasks[1].uploadId \in DOMAIN uploads

\* The counter component of an upload id
\* (0 when the text is not an id generated so far.)
CounterOf(uploadId) ==
    LET counters == {c \in 1..uploadCounter :
                        \E t \in Epoch..MaxClock : uploadId = UploadIdText(t, c)}
    IN IF counters = {} THEN 0 ELSE CHOOSE c \in counters : TRUE

\* C19: over any sequence of generateUploadId calls every returned id differs
\* from all ids returned before and the counter component grows strictly in
\* call order, also when the calls fall in the same millisecond; the id of the
\* next call is new, too.
C19_UniqueIds ==
    /\ \A k \in 1..Len(tasks) : CounterOf(tasks[k].uploadId) = k
    /\ \A i, j \in 1..Len(tasks) :
          i < j => /\ tasks[i].uploadId # tasks[j].uploadId
                   /\ CounterOf(tasks[i].uploadId) < CounterOf(tasks[j].uploadId)
    /\ \A t \in now..MaxClock :
          /\ GenerateUploadId(State, t) \notin TaskIds
          /\ \A k \in 1..Len(tasks) :
                CounterOf(tasks[k].uploadId) < IncrementCounter(State).uploadCounter

\* Two ids were generated in the same millisecond, and they differ.
C19_Witness ==
    /\ Len(tasks) = 2
    /\ tasks[1].uploadId = UploadIdText(Epoch, 1)
    /\ tasks[2].uploadId = UploadIdText(Epoch, 2)
    /\ tasks[1].uploadId # tasks[2].uploadId

\* The link the claim gives for a file and a url, by the file's MIME type.
Template(file, url) ==
    CASE file.type[1] = "image" -> <<"!", "[", file.name, "](">> \o url \o <<")">>
      [] file.type[1] = "video" -> <<"!", "[", file.name, "|video", "](">> \o url \o <<")">>
      [] file.type[1] = "audio" -> <<"!", "[", file.name, "|audio", "](">> \o url \o <<")">>
      [] file.type = <<"application", "pdf">> ->
            <<"[", file.name, "|attachment", "](">> \o url \o <<")">>

\* C20: on a successful transfer the text that replaces the placeholder is the
\* template of the file's category applied to the file name and to
\* ASSETS_URL_PREFIX followed by the server's relative path: for the image
\* cat.png and the path /f/abc.png it is ![cat.png](https://h1.appinn.me/f/abc.png).
C20_LinkTemplates ==
    [][\A k \in 1..Len(tasks) :
          /\ (tasks[k].pc = "awaiting" /\ tasks'[k].outcome = "resolved") =>
                \E response \in WideResponses :
                    /\ response.kind = "load" /\ response.status = 200
                    /\ response.src # <<>>
                    /\ tasks'[k].result = <<"https://h1.appinn.me">> \o response.src
          /\ (Resumed(k) /\ tasks[k].outcome = "resolved" /\ Match(k).found) =>
                /\ value' = Substring(value, 0, Match(k).start)
                            \o Template(tasks[k].file, tasks[k].result)
                            \o SubstringFrom(value, Match(k).end)
                /\ (tasks[k].file.name = "cat.png"
                      /\ tasks[k].result = <<"https://h1.appinn.me", "/f/abc.png">>) =>
                      Includes(value', <<"!", "[", "cat.png", "](", "https://h1.appinn.me",
                                         "/f/abc.png", ")">>)]_vars

\* The upload of a video succeeded and its link stands in the text.
C20_Witness ==
    \E k \in 1..Len(tasks) :
        /\ Finished(k, "replace")
        /\ tasks[k].outcome = "resolved"
        /\ Includes(value, <<"!", "[", "clip.mp4", "|video", "](", "https://h1.appinn.me",
                             "/f/abc.png", ")">>)

\* Error kinds getFailureText may be given: the taxonomy, and names outside it.
ErrorKinds == ERROR_TYPES \cup {"", "timeout", "quota", "constructor", "toString"}

\* C21: getFailureText(id, k) returns for every kind k, also outside the
\* taxonomy, a non-empty text that contains the id, and for a k that is not one
\* of the seven kinds of the taxonomy the message is the generic unknown-error
\* message.
C21_FailureTextTotal ==
    \A k \in 1..Len(tasks), kind \in ErrorKinds :
        LET uploadId == tasks[k].uploadId
            text == GetFailureText(uploadId, kind)
        IN /\ text # <<>>
           /\ \E i \in 1..Len(text) : text[i] = uploadId
           /\ kind \notin ERROR_TYPES =>
                 text = <<"[UPLOAD_FAILED(", "UNKNOWN_ERROR", ")-", uploadId, "]">>

\* How often step occurs among the steps taken for an upload.
Count(steps, step) == Cardinality({i \in 1..Len(steps) : steps[i] = step})

\* C22: for every validated file the transport is invoked exactly once, with no
\* retry after a rejection, and exactly one replace-or-append is performed for
\* its id, in every interleaving; a successful transfer writes the link and no
\* failure marker, a rejected one the marker, and an upload that is over is
\* not touched again.
C22_ExactlyOnce ==
    [][\A k \in 1..Len(tasks') :
          LET uploadId == tasks'[k].uploadId
              steps == trace'[uploadId]
              over == tasks'[k].pc = "done"
          IN /\ Count(steps, "invoke") = 1
             /\ Count(steps, "settle") = IF tasks'[k].pc = "awaiting" THEN 0 ELSE 1
             /\ Count(steps, "replace") + Count(steps, "append") = IF over THEN 1 ELSE 0
             /\ (over /\ tasks'[k].outcome = "resolved") => ~HasFailureMarker(value', uploadId)
             /\ k <= Len(tasks) =>
                   /\ tasks[k].pc # "awaiting" =>
                         /\ tasks'[k].pc # "awaiting"
                         /\ tasks'[k].outcome = tasks[k].outcome
                   /\ tasks[k].pc = "done" =>
                         /\ tasks'[k] = tasks[k]
                         /\ trace'[uploadId] = trace[uploadId]
                   /\ (Resumed(k) /\ tasks[k].outcome = "resolved") =>
                         Includes(value', GetMarkdownLink(tasks[k].file, tasks[k].result))
                   /\ (Resumed(k) /\ tasks[k].outcome = "rejected") =>
                         /\ HasFailureMarker(value', uploadId)
                         /\ Count(value', "](") = Count(value, "](")]_vars

\* Two uploads are over, the first rejected and the second successful, each
\* after one transfer and one replacement: the text holds one marker and one link.
C22_Witness ==
    /\ Len(tasks) = 2
    /\ Finished(1, "replace") /\ tasks[1].outcome = "rejected"
    /\ Finished(2, "replace") /\ tasks[2].outcome = "resolved"
    /\ HasFailureMarker(value, tasks[1].uploadId)
    /\ ~HasFailureMarker(value, tasks[2].uploadId)
    /\ Count(value, "[UPLOAD_FAILED(") = 1
    /\ Count(value, "](") = 1

\* The selection offsets a handler wrote last are in order and inside the text.
WellFormed(s) ==
    /\ 0 <= s.written.selectionStart
    /\ s.written.selectionStart <= s.written.selectionEnd
    /\ s.written.selectionEnd <= Len(s.value)

\* C23: after any sequence of placeholder inserts, user edits or selection
\* changes and replace-or-append steps, the offsets the engine writes satisfy
\* 0 <= selectionStart <= selectionEnd <= length of the text, also for a
\* replace performed while the user's selection starts before the placeholder
\* and ends inside or behind it, with a shorter or longer replacement.
C23_SelectionWellFormed ==
    \A dom \in DomReactions :
        /\ \A k \in 1..Len(tasks) :
              tasks[k].pc = "settled" => WellFormed(ExecuteUploadResume(State, k, dom))
        /\ \A file \in SelectFiles :
              (NoMicrotask /\ uploadCounter < MaxUploads)
                 => WellFormed(ProcessFile(State, file, now, dom))

\* The placeholder of a file with its leading and trailing newlines.
Wrapped(file, uploadId) == <<"\n">> \o GetPlaceholderText(file, uploadId) \o <<"\n", "\n">>

\* C24: when processFiles is called with several valid files, all their
\* placeholders are inserted before any of their transfers can settle, they
\* stand in the text in submission order, each is inserted at the cursor left
\* just behind the previous one's wrapped span, none inside another's span, and
\* each is found by its own id right after the call.
C24_BatchInsertion ==
    \A files \in Batches, dom \in DomReactions :
        (/\ NoMicrotask
         /\ Len(files) >= 2
         /\ \A i \in 1..Len(files) : Verdict(files[i]).valid
         /\ uploadCounter + Len(files) <= MaxUploads) =>
            LET n == Len(tasks)
                after == ProcessFiles(State, files, [i \in 1..Len(files) |-> now], dom)
                id(i) == after.tasks[n + i].uploadId
                found(i) == FindPlaceholder(after.value, id(i))
                offset(i) == after.uploads[id(i)].insertPosition
            IN /\ Len(after.tasks) = n + Len(files)
               /\ \A i \in 1..Len(files) :
                     /\ after.tasks[n + i].file = files[i]
                     /\ after.tasks[n + i].pc = "awaiting"
                     /\ found(i).found
                     /\ found(i).text = GetPlaceholderText(files[i], id(i))
                     /\ found(i).start = offset(i) + 1
               /\ offset(1) = selectionStart
               /\ \A i \in 1..(Len(files) - 1) :
                     /\ offset(i + 1) = offset(i) + Len(Wrapped(files[i], id(i)))
                     /\ found(i).end <= found(i + 1).start
               /\ after.selectionStart
                     = offset(Len(files)) + Len(Wrapped(files[Len(files)], id(Len(files))))

\* An image and a pdf were dropped together after the user had put the cursor
\* at the start of the text: both placeholders stand there in that order and
\* both transfers are awaited.
C24_Witness ==
    /\ Len(tasks) = 2
    /\ tasks[1].pc = "awaiting" /\ tasks[2].pc = "awaiting"
    /\ tasks[1].file.name = "cat.png" /\ tasks[2].file.name = "doc.pdf"
    /\ userActions = 1
    /\ value = Wrapped(tasks[1].file, tasks[1].uploadId)
               \o Wrapped(tasks[2].file, tasks[2].uploadId) \o InitialText

\* The current observer of the initializer watches the target.
Watching(target) == \E o \in observers : o.id = currentObserver /\ o.target = target

\* A #reply-control is in the document, open and with the editor in it, after
\* an earlier #reply-control was removed from the document.
Readded(node) ==
    /\ IsConnected(replyNodes, node)
    /\ replyNodes[node].open
    /\ replyNodes[node].editorControls
    /\ \E old \in Nodes \ {node} : replyNodes[old].state = "detached"

\* C25: when the watched #reply-control is removed from the document and a new
\* one is added and opened with an editor inside, the initializer eventually
\* watches the new element and has run attemptFullSetup for it (unless the page
\* takes the new element away or closes it again); at every moment at most one
\* mutation observer is connected.
C25_SetupRearming ==
    /\ \A node \in Nodes :
          Readded(node) ~> ((Watching(node) /\ elements.replyControl = node)
                            \/ ~Readded(node))
    /\ [](Cardinality(observers) <= 1)

====
